---- MODULE Spec2Model ----
(***************************************************************************)
(* Election subsystem of bikeaction.org: the nomination life cycle of      *)
(* elections/models.py and elections/views.py (nomination_form,            *)
(* nomination_respond, nominee_profile_edit) over the Nominee and          *)
(* Nomination tables.  Every view runs in one database transaction         *)
(* (ATOMIC_REQUESTS), so a view is one atomic action and an IntegrityError *)
(* rolls the whole request back.  A view is modelled as an operator from   *)
(* the request and the current tables to its outcome (the HTTP response    *)
(* and the tables it commits), and as the action that commits the outcome. *)
(***************************************************************************)
EXTENDS Integers, FiniteSets, Sequences, TLC

\* ------------------------------------------------------------------ bounds
MaxNoms == 2          \* Nomination rows (primary keys 1..MaxNoms)
MaxNominees == 2      \* Nominee rows (primary keys 1..MaxNominees)
TickDays == 7         \* days the clock advances per step
MaxTime == 21         \* the clock stops advancing once it reaches this day

\* ------------------------------------------------------- program constants
AcceptancePeriodDays == 7

Users == {"A", "B"}
\* Members in good standing at election.membership_eligibility_deadline.
EligibleAtDeadline == {"A"}
Statements == {"s1", "s2"}
Notes == {"", "n1"}

NoPk == 0
NoUser == "-"
NoDate == -1
NoNote == "<None>"

\* The election under test: a 14-day nomination window (days 7..13).
election == [slug |-> "e1", nominations_open |-> 7, nominations_close |-> 14]

VARIABLES
    now,            \* timezone.now(), in days
    nominees,       \* the Nominee table: a set of rows
    nominations,    \* the Nomination table: a set of rows
    notified,       \* nomination id -> send_nomination_notification jobs enqueued
    acceptedBy      \* ids on which the nominee ran the accept branch of nomination_respond

\* The member whose eligibility is evaluated and the evaluation's result.
VARIABLES
    member,         \* subscriptions, Discord link, activity records, Membership grants
    target_date,    \* target_datetime.date()
    today,          \* timezone.now().date() during eligible_as_of
    result          \* the dicts eligible_as_of has returned: {} before the call

nomVars == <<now, nominees, nominations, notified, acceptedBy>>
eligVars == <<member, target_date, today, result>>

\* The election whose results are calculated and the report returned.
VARIABLES
    poll,           \* districts of voters and nominees, ballots, seat parameters
    results         \* the dicts calculate_election_results has returned: {} before

tallyVars == <<poll, results>>

\* The ballots of the election and, per voter, the last request saved.
VARIABLES
    ballots,        \* the Ballot table, each row with its Vote and QuestionVote rows
    submitted,      \* voter -> the last POST answered "ballot saved", or NoRequest
    in_flight       \* the vote requests being served, each in its own transaction

voteVars == <<ballots, submitted, in_flight>>
vars == <<now, nominees, nominations, notified, acceptedBy,
          member, target_date, today, result, poll, results, ballots, submitted,
          in_flight>>

\* The members that call the vote view.
Electorate == Users \cup {"C"}
NoRequest == [voter |-> NoUser]
NoSubmissions == [v \in Electorate |-> NoRequest]

\* The requests served at the same time, and one that has not arrived.
Transactions == {1, 2}
NoneInFlight ==
    [t \in Transactions |->
        [pc |-> "idle", req |-> NoRequest, seen |-> {}, deleted |-> {},
         inserted |-> <<>>, todo |-> <<>>]]

\* A member with no subscription, no linked Discord account and no grant.
NoPoll == [voter_district |-> <<>>, home |-> <<>>, ballots |-> {},
           eligible_voters |-> {}, district_seat_min_voters |-> 0,
           district_seat_min_votes |-> 0, at_large_seats_count |-> 0]

NoMember == [subscriptions |-> {}, has_discord |-> FALSE, discord_activity |-> {},
             memberships |-> {}]

\* ----------------------------------------------------------------- tables
NomIds == 1..MaxNoms
NomineeIds == 1..MaxNominees

HasNomination(id) == \E n \in nominations : n.id = id
NominationRow(id) == CHOOSE n \in nominations : n.id = id
NomineeRowIn(tbl, id) == CHOOSE n \in tbl : n.id = id
NomineeRow(id) == NomineeRowIn(nominees, id)

FreeNomIds == NomIds \ {n.id : n \in nominations}
FreeNomineeIds(tbl) == NomineeIds \ {n.id : n \in tbl}
Smallest(S) == CHOOSE i \in S : \A j \in S : i <= j

\* ------------------------------------------------------------ Election
is_nominations_open == election.nominations_open <= now /\ now < election.nominations_close

is_acceptance_period_closed == now >= election.nominations_close + AcceptancePeriodDays

\* ------------------------------------------------------------- Nominee
is_profile_complete(nominee) == nominee.photo /\ nominee.board_responsibilities_acknowledged

\* unique_together = ("election", "user")
NomineeUniqueViolation(tbl, election_slug, user) ==
    \E n \in tbl : n.election = election_slug /\ n.user = user

NewNominee(tbl, user) ==
    [id |-> Smallest(FreeNomineeIds(tbl)), election |-> election.slug, user |-> user,
     photo |-> FALSE, board_responsibilities_acknowledged |-> FALSE]

\* Nominee.objects.get_or_create(election=election, user=user): the table
\* afterwards and the row found or created.
get_or_create(tbl, user) ==
    IF \E n \in tbl : n.election = election.slug /\ n.user = user
    THEN [tbl |-> tbl,
          rec |-> CHOOSE n \in tbl : n.election = election.slug /\ n.user = user]
    ELSE [tbl |-> tbl \cup {NewNominee(tbl, user)}, rec |-> NewNominee(tbl, user)]

\* ---------------------------------------------------------- Nomination
\* A table without the unique constraint on (nominee, nominator).
UniqueViolation_off(row, tbl) == FALSE

\* unique_together = ("nominee", "nominator"), checked by the database on
\* every INSERT and UPDATE.
UniqueViolation(row, tbl) ==
    \E o \in tbl : o.id # row.id /\ o.nominee = row.nominee /\ o.nominator = row.nominator

is_self_nomination_in(row, nomineeTbl) == row.nominator = NomineeRowIn(nomineeTbl, row.nominee).user
is_self_nomination(row) == is_self_nomination_in(row, nominees)

\* Auto-accept that looks at new rows only (was_draft ignored).
auto_accepts_new_only(self, is_new, was_draft, is_self) ==
    ~self.draft /\ is_self /\ is_new /\ self.acceptance_status = "pending"

\* The auto-accept condition of Nomination.save.
auto_accepts(self, is_new, was_draft, is_self) ==
    /\ ~self.draft /\ is_self /\ (is_new \/ was_draft)
    /\ self.acceptance_status = "pending"

\* The notification condition of Nomination.save.
sends_notification(self, is_new, was_draft, is_self) ==
    ~self.draft /\ (is_new \/ was_draft) /\ ~is_self

\* Nomination.save(): the row written and whether a notification is enqueued.
Nomination_save(self, is_new, nomineeTbl) ==
    LET was_draft == IF ~is_new /\ HasNomination(self.id)
                     THEN NominationRow(self.id).draft ELSE FALSE
        is_self == is_self_nomination_in(self, nomineeTbl)
    IN  [row |-> IF auto_accepts(self, is_new, was_draft, is_self)
                 THEN [self EXCEPT !.acceptance_status = "accepted", !.acceptance_date = now]
                 ELSE self,
         notify |-> sends_notification(self, is_new, was_draft, is_self)]

NewNomination(nominee, nominator, draft, statement) ==
    [id |-> Smallest(FreeNomIds), nominee |-> nominee.id, nominator |-> nominator,
     nomination_statement |-> statement, draft |-> draft,
     acceptance_status |-> "pending", acceptance_date |-> NoDate,
     acceptance_note |-> NoNote]

\* ------------------------------------------------------------- outcomes
\* The outcome of a request: its response and the tables after it.
Outcome(r, nomineeTbl, nominationTbl, notif, accepted) ==
    [resp |-> r, nominees |-> nomineeTbl, nominations |-> nominationTbl,
     notified |-> notif, acceptedBy |-> accepted]

\* A response that writes nothing (or whose transaction is rolled back).
Reply(r) == Outcome(r, nominees, nominations, notified, acceptedBy)

\* The model has no primary key left for a new row.
NoFreeId == "bound:no-free-id"

\* The request commits: the Nominee table as left by get_or_create, the row
\* saved through Nomination.save, the on_commit notification; or the unique
\* constraint raises IntegrityError and the transaction is rolled back.
Persist(self, is_new, nomineeTbl, accepted, ok) ==
    LET s == Nomination_save(self, is_new, nomineeTbl)
        rest == {n \in nominations : n.id # self.id}
    IN  IF UniqueViolation(s.row, nominations)
        THEN Reply("500:IntegrityError")
        ELSE Outcome(ok, nomineeTbl, rest \cup {s.row},
                     IF s.notify THEN [notified EXCEPT ![self.id] = @ + 1] ELSE notified,
                     IF accepted THEN acceptedBy \cup {self.id} ELSE acceptedBy)

\* --------------------------------------------------------- NominationForm
\* NominationForm.is_valid(): the nominee field is required and clean_nominee
\* refuses a nominee for whom this nominator already has a non-draft
\* nomination other than the one being edited.
already_submitted(nominator, nominee_user, nomination_id) ==
    \E nr \in nominees :
        /\ nr.election = election.slug /\ nr.user = nominee_user
        /\ \E n \in nominations :
              /\ n.nominee = nr.id /\ n.nominator = nominator /\ ~n.draft
              /\ (nomination_id = NoPk \/ n.id # nomination_id)

form_is_valid(nominator, nominee_user, nomination_id) ==
    /\ nominee_user # NoUser
    /\ ~already_submitted(nominator, nominee_user, nomination_id)

\* The edit check without its declined branch.
edit_refused_nonself_only(nomination) ==
    ~nomination.draft /\ ~is_self_nomination(nomination)

\* The edit check without its self-nomination branch.
edit_refused_declined_only(nomination) ==
    ~nomination.draft /\ nomination.acceptance_status = "declined"

\* nomination_form, "if not nomination.draft": a submitted nomination is
\* open to editing only if it is a self-nomination that is not declined.
edit_refused(nomination) ==
    /\ ~nomination.draft
    /\ \/ ~is_self_nomination(nomination)
       \/ nomination.acceptance_status = "declined"

\* The save-draft branch of nomination_form.
save_draft(user, pk, nominee_user, statement) ==
    IF nominee_user = NoUser
    THEN Reply("redirect:nomination_form")
    ELSE LET nt == get_or_create(nominees, nominee_user)
         IN  IF pk # NoPk
             THEN Persist([NominationRow(pk) EXCEPT
                               !.nominee = nt.rec.id,
                               !.nomination_statement = statement],
                          FALSE, nt.tbl, FALSE, "redirect:profile")
             ELSE IF FreeNomIds = {} THEN Reply(NoFreeId)
             ELSE Persist(NewNomination(nt.rec, user, TRUE, statement),
                          TRUE, nt.tbl, FALSE, "redirect:profile")

\* The draft flag the submit branch writes: a self-nomination whose nominee
\* profile is incomplete is saved as a draft, anything else as submitted.
submit_as_draft(is_self, nominee_record) == is_self /\ ~is_profile_complete(nominee_record)

\* The submit-nomination branch of nomination_form.
submit_nomination(user, pk, nominee_user, statement) ==
    IF ~form_is_valid(user, nominee_user, pk)
    THEN Reply("200")
    ELSE LET nt == get_or_create(nominees, nominee_user)
             deferred == submit_as_draft(nominee_user = user, nt.rec)
             ok == IF deferred THEN "redirect:nominee_profile_edit?self_nomination_id"
                   ELSE "redirect:profile"
         IN  IF pk # NoPk
             THEN Persist([NominationRow(pk) EXCEPT
                               !.nominee = nt.rec.id,
                               !.nomination_statement = statement,
                               !.draft = deferred],
                          FALSE, nt.tbl, FALSE, ok)
             ELSE IF FreeNomIds = {} THEN Reply(NoFreeId)
             ELSE Persist(NewNomination(nt.rec, user, deferred, statement),
                          TRUE, nt.tbl, FALSE, ok)

FormOps == {"GET", "save-draft", "submit-nomination"}

\* request.user.profile.eligible_as_of(election.membership_eligibility_deadline)
eligible(user) == user \in EligibleAtDeadline

\* The outcome of nomination_form(request, election_slug, pk); complete is
\* request.user.profile.complete, op the button posted ("GET" for a GET).
nomination_form_view(user, pk, op, nominee_user, statement, complete) ==
    IF ~complete THEN Reply("redirect:profile")
    ELSE IF ~eligible(user) THEN Reply("redirect:election_detail")
    ELSE IF ~is_nominations_open THEN Reply("redirect:election_detail")
    ELSE IF pk # NoPk /\ ~(HasNomination(pk) /\ NominationRow(pk).nominator = user)
         THEN Reply("404")
    ELSE IF pk # NoPk /\ edit_refused(NominationRow(pk))
         THEN Reply("redirect:nomination_view")
    ELSE IF op = "save-draft" THEN save_draft(user, pk, nominee_user, statement)
    ELSE IF op = "submit-nomination"
         THEN submit_nomination(user, pk, nominee_user, statement)
    ELSE Reply("200")

nomination_form(user, pk, op, nominee_user, statement, complete) ==
    LET out == nomination_form_view(user, pk, op, nominee_user, statement, complete)
    IN  /\ out.resp # NoFreeId
        /\ nominees' = out.nominees
        /\ nominations' = out.nominations
        /\ notified' = out.notified
        /\ acceptedBy' = out.acceptedBy
        /\ now' = now
        /\ UNCHANGED <<eligVars, tallyVars, voteVars>>

\* ------------------------------------------------------ nomination_respond
RespondOps == {"GET", "accept", "decline", "withdraw"}

\* The row nomination_respond writes for a POST, or the row unchanged when
\* the action is invalid for this kind of nomination.
respond_row(nomination, action, note) ==
    IF is_self_nomination(nomination)
    THEN IF action = "withdraw"
         THEN [nomination EXCEPT !.acceptance_status = "declined", !.acceptance_date = now]
         ELSE nomination
    ELSE IF action = "accept"
         THEN [nomination EXCEPT !.acceptance_status = "accepted",
                                 !.acceptance_date = now, !.acceptance_note = note]
         ELSE IF action = "decline"
         THEN [nomination EXCEPT !.acceptance_status = "declined",
                                 !.acceptance_date = now, !.acceptance_note = note]
         ELSE nomination

\* Whether the POST action is one the view carries out on this nomination.
valid_action(nomination, action) ==
    IF is_self_nomination(nomination)
    THEN action = "withdraw"
    ELSE action \in {"accept", "decline"}

\* Acceptance without the profile check.
accept_needs_profile_off(nomination, action) == FALSE

\* "Check if nominee profile is complete before allowing acceptance".
accept_needs_profile(nomination, action) ==
    action = "accept" /\ ~is_profile_complete(NomineeRow(nomination.nominee))

\* A lookup that does not ask whose nomination it is.
respond_finds_any_user(user, pk) ==
    /\ HasNomination(pk)
    /\ ~NominationRow(pk).draft

\* get_object_or_404(Nomination, id=pk, nominee__election=election,
\*                   nominee__user=request.user, draft=False)
respond_finds(user, pk) ==
    /\ HasNomination(pk)
    /\ NomineeRow(NominationRow(pk).nominee).user = user
    /\ ~NominationRow(pk).draft

\* The outcome of nomination_respond(request, election_slug, pk); action is
\* the POST field, "GET" for a GET request.
nomination_respond_view(user, pk, action, note) ==
    IF ~respond_finds(user, pk) THEN Reply("404")
    ELSE IF is_acceptance_period_closed THEN Reply("redirect:profile")
    ELSE IF action = "GET" THEN Reply("200")
    ELSE IF accept_needs_profile(NominationRow(pk), action)
         THEN Reply("redirect:nominee_profile_edit?next")
    ELSE IF ~valid_action(NominationRow(pk), action) THEN Reply("redirect:profile")
    ELSE Persist(respond_row(NominationRow(pk), action, note), FALSE, nominees,
                 ~is_self_nomination(NominationRow(pk)) /\ action = "accept",
                 "redirect:profile")

nomination_respond(user, pk, action, note) ==
    LET out == nomination_respond_view(user, pk, action, note)
    IN  /\ out.resp # NoFreeId
        /\ nominees' = out.nominees
        /\ nominations' = out.nominations
        /\ notified' = out.notified
        /\ acceptedBy' = out.acceptedBy
        /\ now' = now
        /\ UNCHANGED <<eligVars, tallyVars, voteVars>>

\* ---------------------------------------------------- nominee_profile_edit
PhotoInputs == {"keep", "upload", "clear"}

\* NomineeProfileForm.is_valid(): board_responsibilities_acknowledged is
\* required (the box must be ticked); photo is an optional field.
profile_form_is_valid(photo, ack) == ack

\* NomineeProfileForm.save(): an uploaded file replaces the photo, the
\* clear box empties it, otherwise it is kept.
profile_form_save(nominee, photo, ack) ==
    [nominee EXCEPT !.photo = IF photo = "upload" THEN TRUE
                              ELSE IF photo = "clear" THEN FALSE ELSE @,
                    !.board_responsibilities_acknowledged = ack]

\* Nomination.objects.get(id=self_nomination_id, nominee=nominee,
\*                        nominator=request.user, draft=True) finds a row.
auto_submit_finds(self_nomination_id, nominee, user) ==
    /\ self_nomination_id # NoPk
    /\ HasNomination(self_nomination_id)
    /\ NominationRow(self_nomination_id).nominee = nominee.id
    /\ NominationRow(self_nomination_id).nominator = user
    /\ NominationRow(self_nomination_id).draft

\* The outcome of nominee_profile_edit(request, election_slug, nominee_id).
nominee_profile_edit_view(user, nominee_id, op, photo, ack, self_nomination_id) ==
    IF ~(\E n \in nominees : n.id = nominee_id /\ n.user = user)
    THEN Reply("404")
    ELSE IF is_acceptance_period_closed THEN Reply("redirect:profile")
    ELSE IF op = "GET" \/ ~profile_form_is_valid(photo, ack) THEN Reply("200")
    ELSE LET nominee == profile_form_save(NomineeRow(nominee_id), photo, ack)
             tbl == {n \in nominees : n.id # nominee_id} \cup {nominee}
         IN  IF auto_submit_finds(self_nomination_id, nominee, user)
             THEN Persist([NominationRow(self_nomination_id) EXCEPT !.draft = FALSE],
                          FALSE, tbl, FALSE, "redirect:next_or_profile")
             ELSE Outcome("redirect:next_or_profile", tbl, nominations,
                          notified, acceptedBy)

nominee_profile_edit(user, nominee_id, op, photo, ack, self_nomination_id) ==
    LET out == nominee_profile_edit_view(user, nominee_id, op, photo, ack, self_nomination_id)
    IN  /\ out.resp # NoFreeId
        /\ nominees' = out.nominees
        /\ nominations' = out.nominations
        /\ notified' = out.notified
        /\ acceptedBy' = out.acceptedBy
        /\ now' = now
        /\ UNCHANGED <<eligVars, tallyVars, voteVars>>

\* Nominee.objects.create(election=election, user=user), as the admin site
\* and the tests do: the unique constraint refuses a second row.
Nominee_objects_create_row(user) ==
    IF NomineeUniqueViolation(nominees, election.slug, user)
    THEN Reply("500:IntegrityError")
    ELSE IF FreeNomineeIds(nominees) = {} THEN Reply(NoFreeId)
    ELSE Outcome("created", nominees \cup {NewNominee(nominees, user)}, nominations,
                 notified, acceptedBy)

Nominee_objects_create(user) ==
    LET out == Nominee_objects_create_row(user)
    IN  /\ out.resp # NoFreeId
        /\ nominees' = out.nominees
        /\ nominations' = out.nominations
        /\ notified' = out.notified
        /\ acceptedBy' = out.acceptedBy
        /\ now' = now
        /\ UNCHANGED <<eligVars, tallyVars, voteVars>>

\* ---------------------------------------------------------------- clock
Tick ==
    /\ now < MaxTime
    /\ now' = now + TickDays
    /\ UNCHANGED <<nominees, nominations, notified, acceptedBy>>
    /\ UNCHANGED <<eligVars, tallyVars, voteVars>>

\* ------------------------------------------------------------ the requests
\* Inputs that the handler does not read on a path are fixed, so that each
\* request is drawn once.
FormInputs(op) ==
    IF op = "GET"
    THEN {[nominee |-> NoUser, statement |-> "s1", complete |-> c] : c \in BOOLEAN}
    ELSE {[nominee |-> u, statement |-> st, complete |-> TRUE] :
              u \in Users \cup {NoUser}, st \in Statements}
         \cup {[nominee |-> NoUser, statement |-> "s1", complete |-> FALSE]}

ProfileInputs(op) ==
    IF op = "GET"
    THEN {[photo |-> "keep", ack |-> FALSE, self_nomination_id |-> NoPk]}
    ELSE {[photo |-> ph, ack |-> TRUE, self_nomination_id |-> id] :
              ph \in PhotoInputs, id \in {NoPk} \cup NomIds}
         \cup {[photo |-> "keep", ack |-> FALSE, self_nomination_id |-> NoPk]}

Init ==
    /\ now = 0
    /\ nominees = {}
    /\ nominations = {}
    /\ notified = [i \in NomIds |-> 0]
    /\ acceptedBy = {}
    /\ member = NoMember /\ target_date = 0 /\ today = 0 /\ result = {}
    /\ poll = NoPoll /\ results = {}
    /\ ballots = {} /\ submitted = NoSubmissions /\ in_flight = NoneInFlight

Next ==
    \/ Tick
    \/ \E user \in Users, pk \in {NoPk} \cup NomIds, op \in FormOps :
          \E in \in FormInputs(op) :
              nomination_form(user, pk, op, in.nominee, in.statement, in.complete)
    \/ \E user \in Users, pk \in NomIds, action \in RespondOps, note \in Notes :
          nomination_respond(user, pk, action, note)
    \/ \E user \in Users, nominee_id \in NomineeIds, op \in {"GET", "POST"} :
          \E in \in ProfileInputs(op) :
              nominee_profile_edit(user, nominee_id, op, in.photo, in.ack,
                                   in.self_nomination_id)
    \/ \E user \in Users : Nominee_objects_create(user)

Spec == Init /\ [][Next]_vars

\* ================================================================ claims
\* Rows before and after a step.
RowAfter(id) == CHOOSE n \in nominations' : n.id = id
HasAfter(id) == \E n \in nominations' : n.id = id
IsSelf(n) == is_self_nomination(n)
IsSelfAfter(id) == is_self_nomination_in(RowAfter(id), nominees')

\* The step saves nomination id as non-draft for the first time: the row is
\* created with draft=False, or its draft flag changes from True to False.
BecomesSubmitted(id) ==
    /\ HasAfter(id) /\ ~RowAfter(id).draft
    /\ (~HasNomination(id) \/ NominationRow(id).draft)

\* The acceptance status the saved row started from: pending for a new row.
StatusBefore(id) ==
    IF HasNomination(id) THEN NominationRow(id).acceptance_status ELSE "pending"

\* C1: a submitted nomination whose nominator is not the nominee's member is
\* accepted only if the nominee ran the accept action of nomination_respond
\* on it.
C1_AcceptedOnlyByNominee ==
    \A n \in nominations :
        (~n.draft /\ ~IsSelf(n) /\ n.acceptance_status = "accepted")
            => n.id \in acceptedBy

\* C2: a self-nomination saved as non-draft for the first time while pending
\* comes out accepted, with an acceptance date, and enqueues no notification.
C2_SelfNominationAutoAccepts ==
    [][\A id \in NomIds :
          (BecomesSubmitted(id) /\ IsSelfAfter(id) /\ StatusBefore(id) = "pending")
              => /\ RowAfter(id).acceptance_status = "accepted"
                 /\ RowAfter(id).acceptance_date # NoDate
                 /\ notified' = notified]_vars

C2_Witness ==
    \E n \in nominations :
        /\ IsSelf(n) /\ ~n.draft /\ n.acceptance_status = "accepted"
        /\ n.acceptance_date # NoDate /\ notified[n.id] = 0

\* C3: for a non-self nomination the transition into submitted enqueues
\* exactly one notification and leaves the status pending; a save as draft
\* and every other save enqueue none; no nomination is notified twice.
C3_OneNotificationAtSubmission ==
    [][\A id \in NomIds :
          /\ (BecomesSubmitted(id) /\ ~IsSelfAfter(id))
                => /\ notified'[id] = notified[id] + 1
                   /\ RowAfter(id).acceptance_status = "pending"
          /\ ~(BecomesSubmitted(id) /\ ~IsSelfAfter(id))
                => notified'[id] = notified[id]
          /\ notified'[id] <= 1]_vars

\* The notification half of C3 alone.
C3_NotificationsOnly ==
    [][\A id \in NomIds :
          /\ (BecomesSubmitted(id) /\ ~IsSelfAfter(id))
                => notified'[id] = notified[id] + 1
          /\ ~(BecomesSubmitted(id) /\ ~IsSelfAfter(id))
                => notified'[id] = notified[id]
          /\ notified'[id] <= 1]_vars

Redirects ==
    {"redirect:profile", "redirect:election_detail", "redirect:nomination_view",
     "redirect:nomination_form", "redirect:nominee_profile_edit?next",
     "redirect:nominee_profile_edit?self_nomination_id", "redirect:next_or_profile"}

RowIn(tbl, id) == CHOOSE n \in tbl : n.id = id
NomineeUser(n) == NomineeRow(n.nominee).user
NomineeComplete(n) == is_profile_complete(NomineeRow(n.nominee))

\* C4: at most one Nomination per (nominee, nominator) and one Nominee per
\* (election, member); an INSERT for an existing pair, and every request
\* that gets as far as one, fails with IntegrityError and changes nothing.
C4_UniqueRows ==
    /\ \A n1 \in nominations, n2 \in nominations :
          (n1.nominee = n2.nominee /\ n1.nominator = n2.nominator) => n1 = n2
    /\ \A m1 \in nominees, m2 \in nominees :
          (m1.election = m2.election /\ m1.user = m2.user) => m1 = m2
    /\ \A n \in nominations, st \in Statements, d \in BOOLEAN :
          Persist([n EXCEPT !.id = MaxNoms + 1, !.nomination_statement = st,
                            !.draft = d, !.acceptance_status = "pending",
                            !.acceptance_date = NoDate, !.acceptance_note = NoNote],
                  TRUE, nominees, FALSE, "created") = Reply("500:IntegrityError")
    /\ \A m \in nominees :
          Nominee_objects_create_row(m.user) = Reply("500:IntegrityError")
    /\ \A n \in nominations, op \in {"save-draft", "submit-nomination"},
          st \in Statements :
          (/\ FreeNomIds # {} /\ is_nominations_open
           /\ (op = "submit-nomination" => form_is_valid(n.nominator, NomineeUser(n), NoPk)))
              => nomination_form_view(n.nominator, NoPk, op, NomineeUser(n), st, TRUE)
                     = Reply("500:IntegrityError")

C4_Witness ==
    \E n \in nominations :
        /\ FreeNomIds # {} /\ is_nominations_open
        /\ nomination_form_view(n.nominator, NoPk, "save-draft", NomineeUser(n), "s2", TRUE).resp
               = "500:IntegrityError"

\* Every nomination_form request of the nominator on nomination n is answered
\* by a redirect and leaves the tables as they are.
FormRejects(n) ==
    \A op \in FormOps, u \in Users \cup {NoUser}, st \in Statements, c \in BOOLEAN :
        LET out == nomination_form_view(n.nominator, n.id, op, u, st, c)
        IN  out.resp \in Redirects /\ out = Reply(out.resp)

\* C5 as stated: withdraw on an accepted self-nomination sets declined, and
\* every later nomination_form request on it is refused by a redirect and
\* changes nothing.
C5_WithdrawThenNoEdit ==
    \A n \in nominations :
        (IsSelf(n) /\ ~n.draft) =>
            /\ n.acceptance_status = "accepted" =>
                  \A note \in Notes :
                      RowIn(nomination_respond_view(n.nominator, n.id, "withdraw", note).nominations,
                            n.id).acceptance_status = "declined"
            /\ n.acceptance_status = "declined" => FormRejects(n)

\* C5 amended: withdraw sets declined while the acceptance period is open
\* (once it has closed the request changes nothing); every later
\* nomination_form request on the withdrawn nomination is refused by a
\* redirect and changes nothing.
C5_WithdrawWhileOpenThenNoEdit ==
    \A n \in nominations :
        (IsSelf(n) /\ ~n.draft) =>
            /\ n.acceptance_status = "accepted" =>
                  \A note \in Notes :
                      LET out == nomination_respond_view(n.nominator, n.id, "withdraw", note)
                      IN  IF is_acceptance_period_closed
                          THEN out = Reply("redirect:profile")
                          ELSE /\ RowIn(out.nominations, n.id).acceptance_status = "declined"
                               /\ out.resp = "redirect:profile"
            /\ n.acceptance_status = "declined" => FormRejects(n)

C5_Witness ==
    \E n \in nominations :
        /\ IsSelf(n) /\ ~n.draft /\ n.acceptance_status = "declined"
        /\ is_nominations_open /\ NomineeComplete(n)
        /\ nomination_form_view(n.nominator, n.id, "submit-nomination", n.nominator,
                                "s2", TRUE).resp = "redirect:nomination_view"

\* A nomination turns accepted through nomination_respond only in a state
\* where the nominee profile is complete.
AcceptedOnlyWhenComplete ==
    \A n \in nominations, action \in RespondOps, note \in Notes :
        LET out == nomination_respond_view(NomineeUser(n), n.id, action, note)
        IN  (/\ n.acceptance_status # "accepted"
             /\ RowIn(out.nominations, n.id).acceptance_status = "accepted")
                => NomineeComplete(n)

\* C6 as stated: an accept request made while the nominee profile is
\* incomplete changes nothing and redirects to the nominee profile editor;
\* a nomination becomes accepted through nomination_respond only when the
\* profile is complete.
C6_AcceptNeedsProfile ==
    /\ \A n \in nominations, note \in Notes :
          (~n.draft /\ ~NomineeComplete(n))
              => nomination_respond_view(NomineeUser(n), n.id, "accept", note)
                     = Reply("redirect:nominee_profile_edit?next")
    /\ AcceptedOnlyWhenComplete

\* C6 amended: the accept request changes nothing; it redirects to the
\* nominee profile editor while the acceptance period is open and to the
\* profile page once it has closed.
C6_AcceptNeedsProfileWhileOpen ==
    /\ \A n \in nominations, note \in Notes :
          (~n.draft /\ ~NomineeComplete(n))
              => nomination_respond_view(NomineeUser(n), n.id, "accept", note)
                     = Reply(IF is_acceptance_period_closed
                             THEN "redirect:profile"
                             ELSE "redirect:nominee_profile_edit?next")
    /\ AcceptedOnlyWhenComplete

C6_Witness ==
    \E n \in nominations :
        /\ ~n.draft /\ ~IsSelf(n) /\ n.acceptance_status = "pending"
        /\ ~NomineeComplete(n) /\ ~is_acceptance_period_closed
        /\ nomination_respond_view(NomineeUser(n), n.id, "accept", "n1").resp
               = "redirect:nominee_profile_edit?next"

\* C7: a nomination changes from draft to submitted only while the
\* nomination window of its election is open.
C7_SubmittedOnlyInWindow ==
    [][\A id \in NomIds :
          (HasNomination(id) /\ NominationRow(id).draft /\ HasAfter(id) /\ ~RowAfter(id).draft)
              => is_nominations_open]_vars

\* C8: a self-nomination becomes submitted only when the nominee profile is
\* complete at that moment (photo present, responsibilities acknowledged).
C8_SelfSubmittedOnlyWhenComplete ==
    [][\A id \in NomIds :
          (BecomesSubmitted(id) /\ IsSelfAfter(id))
              => is_profile_complete(NomineeRowIn(nominees', RowAfter(id).nominee))]_vars

\* C9: once a nomination has draft=False it never has draft=True again.
C9_DraftMonotone ==
    [][\A id \in NomIds :
          (HasNomination(id) /\ ~NominationRow(id).draft /\ HasAfter(id))
              => ~RowAfter(id).draft]_vars

\* C10: no request of the nominator changes a submitted non-self nomination
\* (an edit request is answered by a redirect), and nomination_form changes
\* a nomination only if it is a draft or a submitted self-nomination that is
\* not declined.
C10_SubmittedNonSelfImmutable ==
    /\ \A n \in nominations :
          (~n.draft /\ ~IsSelf(n)) =>
              /\ FormRejects(n)
              /\ \A pk \in {NoPk} \cup NomIds, op \in FormOps, u \in Users \cup {NoUser},
                    st \in Statements, c \in BOOLEAN :
                    n \in nomination_form_view(n.nominator, pk, op, u, st, c).nominations
              /\ \A pk \in NomIds, action \in RespondOps, note \in Notes :
                    n \in nomination_respond_view(n.nominator, pk, action, note).nominations
              /\ \A nominee_id \in NomineeIds, ph \in PhotoInputs, ack \in BOOLEAN,
                    sid \in {NoPk} \cup NomIds :
                    n \in nominee_profile_edit_view(n.nominator, nominee_id, "POST",
                                                    ph, ack, sid).nominations
    /\ \A n \in nominations, user \in Users, op \in FormOps, u \in Users \cup {NoUser},
          st \in Statements, c \in BOOLEAN :
          n \notin nomination_form_view(user, n.id, op, u, st, c).nominations
              => (n.draft \/ (IsSelf(n) /\ n.acceptance_status # "declined"))

C10_Witness ==
    \E n \in nominations :
        /\ ~n.draft /\ ~IsSelf(n) /\ is_nominations_open
        /\ nomination_form_view(n.nominator, n.id, "submit-nomination", NomineeUser(n),
                                "s2", TRUE).resp = "redirect:nomination_view"

\* ================================================= Profile.eligible_as_of
\* ------------------------------------------------------------------ bounds
MaxSubs == 2          \* Stripe subscriptions of the member
MaxActivity == 2      \* DiscordActivity records of the member

\* ------------------------------------------------------- program constants
ActivityWindowDays == 30

\* Dates are days.  The targets and the record dates are chosen so that every
\* boundary of the function is hit: a period end one day before, on and after
\* the target; activity 31 and 30 days before, on and after the target; a
\* grant starting on or after, and ending on or before, the target.
TargetDates == {40, 41}
TodayDates == {39, 42}
PeriodEnds == {39, 40, 41}
ActivityDates == {10, 11, 41}
ActivityCounts == {1, 5}
GrantStarts == {NoDate, 40, 41}
GrantEnds == {NoDate, 40}

SubscriptionStatuses == {"active", "trialing", "canceled", "past_due", "incomplete"}

Subscriptions == [status : SubscriptionStatuses, current_period_end : PeriodEnds]
Activities == [date : ActivityDates, count : ActivityCounts]
Grants == [start_date : GrantStarts, end_date : GrantEnds]

\* The member has no Membership record or one.  The on_message handler keeps one DiscordActivity row per profile and day.
OnePerDay(S) == \A a \in S, b \in S : a.date = b.date => a = b

Members ==
    [subscriptions : {S \in SUBSET Subscriptions : Cardinality(S) <= MaxSubs},
     has_discord : BOOLEAN,
     discord_activity : {S \in SUBSET Activities :
                             Cardinality(S) <= MaxActivity /\ OnePerDay(S)},
     memberships : {{}} \cup {{g} : g \in Grants}]

\* Subscription.objects.filter(customer__subscriber=self.user,
\*                             status__in=["active", "trialing"])
counted_statuses_any == SubscriptionStatuses

counted_statuses == {"active", "trialing"}

subscriptions_of(m) == {s \in m.subscriptions : s.status \in counted_statuses}

\* subscriptions.order_by("-current_period_end").first()
latest_sub(m) ==
    CHOOSE s \in subscriptions_of(m) :
        \A o \in subscriptions_of(m) : o.current_period_end <= s.current_period_end

donor_sufficient_alone(m, target) ==
    /\ subscriptions_of(m) # {}
    /\ latest_sub(m).current_period_end >= target

\* A renewal test that counts a period ending on the target day itself.
donor_status_inclusive(m, target, now_date) ==
    IF ~donor_sufficient_alone(m, target) THEN "inactive"
    ELSE IF latest_sub(m).current_period_end > now_date
         THEN IF now_date < latest_sub(m).current_period_end
                 /\ latest_sub(m).current_period_end <= target
              THEN "active_renewal_required"
              ELSE "active_stable"
         ELSE "expiring"

donor_status(m, target, now_date) ==
    IF ~donor_sufficient_alone(m, target) THEN "inactive"
    ELSE IF latest_sub(m).current_period_end > now_date
         THEN IF now_date < latest_sub(m).current_period_end
                 /\ latest_sub(m).current_period_end < target
              THEN "active_renewal_required"
              ELSE "active_stable"
         ELSE "expiring"

donor_next_renewal(m, target, now_date) ==
    IF donor_status(m, target, now_date) = "active_renewal_required"
    THEN latest_sub(m).current_period_end
    ELSE NoDate

\* A window that leaves out the day exactly 30 days before the target.
activity_in_window_exclusive(m, target) ==
    {a \in m.discord_activity : target - ActivityWindowDays < a.date /\ a.date <= target}

\* self.discord_activity.filter(date__gte=thirty_days_before_target,
\*                              date__lte=target_date)
activity_in_window(m, target) ==
    {a \in m.discord_activity : target - ActivityWindowDays <= a.date /\ a.date <= target}

\* aggregate(total=Sum("count")): 0 stands for None over no rows.
RECURSIVE SumCount(_)
SumCount(S) ==
    IF S = {} THEN 0
    ELSE LET a == CHOOSE x \in S : TRUE IN a.count + SumCount(S \ {a})

\* aggregate(last_activity=Max("date"))
MaxDate(S) ==
    IF S = {} THEN NoDate
    ELSE CHOOSE d \in {a.date : a \in S} : \A a \in S : a.date <= d

discord_sufficient_alone(m, target) ==
    /\ m.has_discord
    /\ SumCount(activity_in_window(m, target)) > 0

discord_last_activity(m, target) ==
    IF discord_sufficient_alone(m, target)
    THEN MaxDate(activity_in_window(m, target))
    ELSE NoDate

\* Membership.objects.filter(user=self.user, start_date__lte=target_date)
\*     .filter(Q(end_date__isnull=True) | Q(end_date__gte=target_date)).exists()
\* (a null start_date matches no __lte filter).
membership_sufficient_alone(m, target) ==
    \E g \in m.memberships :
        /\ g.start_date # NoDate /\ g.start_date <= target
        /\ (g.end_date = NoDate \/ g.end_date >= target)

\* Eligibility that forgets the Membership path.
overall_eligible_no_membership(donor, discord, membership) == donor \/ discord

overall_eligible(donor, discord, membership) == donor \/ discord \/ membership

\* The renewal warning, as 0 or 1 entries.
renewal_warnings(status, discord) ==
    IF status = "active_renewal_required"
    THEN IF ~discord THEN <<"renewal:at_risk">> ELSE <<"renewal:discord_backup">>
    ELSE <<>>

\* An ageing test that counts activity exactly 30 days before the target.
aging_warnings_inclusive(donor, discord, last_activity, target, now_date) ==
    IF discord /\ target > now_date /\ last_activity # NoDate
       /\ last_activity + ActivityWindowDays <= target
    THEN IF ~donor THEN <<"aging:at_risk">> ELSE <<"aging:donor_backup">>
    ELSE <<>>

\* The Discord ageing warning.
aging_warnings(donor, discord, last_activity, target, now_date) ==
    IF discord /\ target > now_date /\ last_activity # NoDate
       /\ last_activity + ActivityWindowDays < target
    THEN IF ~donor THEN <<"aging:at_risk">> ELSE <<"aging:donor_backup">>
    ELSE <<>>

\* Single-path warnings given whether or not a Membership record suffices.
single_path_warnings_always(donor, discord, membership, has_discord) ==
    IF donor /\ ~discord
    THEN IF has_discord THEN <<"donation_only:post">> ELSE <<"donation_only:connect">>
    ELSE IF discord /\ ~donor THEN <<"discord_only">>
    ELSE <<>>

\* "Single point of failure warnings (skip if they have a membership record)"
single_path_warnings(donor, discord, membership, has_discord) ==
    IF membership THEN <<>>
    ELSE IF donor /\ ~discord
    THEN IF has_discord THEN <<"donation_only:post">> ELSE <<"donation_only:connect">>
    ELSE IF discord /\ ~donor THEN <<"discord_only">>
    ELSE <<>>

\* Profile.eligible_as_of(target_datetime), evaluated on the day now_date.
eligible_as_of(m, target, now_date) ==
    LET donor == donor_sufficient_alone(m, target)
        status == donor_status(m, target, now_date)
        discord == discord_sufficient_alone(m, target)
        last == discord_last_activity(m, target)
        membership == membership_sufficient_alone(m, target)
        is_eligible == overall_eligible(donor, discord, membership)
        warn == IF is_eligible
                THEN renewal_warnings(status, discord)
                     \o aging_warnings(donor, discord, last, target, now_date)
                     \o single_path_warnings(donor, discord, membership, m.has_discord)
                ELSE <<>>
    IN  [eligible |-> is_eligible,
         donor |-> donor,
         donor_status |-> status,
         donor_next_renewal |-> donor_next_renewal(m, target, now_date),
         discord_active |-> discord,
         discord_last_activity |-> last,
         discord_sufficient_alone |-> discord,
         donor_sufficient_alone |-> donor,
         membership_sufficient_alone |-> membership,
         warnings |-> warn,
         at_risk |-> is_eligible /\ \E i \in 1..Len(warn) :
                         warn[i] \in {"renewal:at_risk", "aging:at_risk"}]

\* A caller evaluates eligible_as_of for the member.
eligible_as_of_call ==
    /\ result = {}
    /\ result' = {eligible_as_of(member, target_date, today)}
    /\ UNCHANGED <<member, target_date, today>>
    /\ UNCHANGED <<nomVars, tallyVars, voteVars>>

InitEligibility ==
    /\ member \in Members
    /\ target_date \in TargetDates
    /\ today \in TodayDates
    /\ result = {}
    /\ now = 0 /\ nominees = {} /\ nominations = {}
    /\ notified = [i \in NomIds |-> 0] /\ acceptedBy = {}
    /\ poll = NoPoll /\ results = {}
    /\ ballots = {} /\ submitted = NoSubmissions /\ in_flight = NoneInFlight

NextEligibility == eligible_as_of_call

SpecEligibility == InitEligibility /\ [][NextEligibility]_vars

\* ---------------------------------------------------------------- claims
\* C11: eligible is the OR of the three sufficient_alone flags; a member with
\* no subscription, no linked Discord account and no Membership grant gets
\* eligible=False, donor_status inactive, no warnings and at_risk=False,
\* whether the target is before or after today.
C11_EligibleIsOrOfPaths ==
    \A r \in result :
        /\ r.eligible = (r.donor_sufficient_alone \/ r.discord_sufficient_alone
                            \/ r.membership_sufficient_alone)
        /\ r.eligible = (\/ donor_sufficient_alone(member, target_date)
                         \/ discord_sufficient_alone(member, target_date)
                         \/ membership_sufficient_alone(member, target_date))
        /\ (/\ member.subscriptions = {} /\ ~member.has_discord
            /\ member.memberships = {})
              => /\ ~r.eligible /\ r.donor_status = "inactive"
                 /\ r.warnings = <<>> /\ ~r.at_risk

C11_Witness ==
    \E r \in result :
        /\ member.subscriptions = {} /\ ~member.has_discord /\ member.memberships = {}
        /\ member.discord_activity # {} /\ target_date > today /\ ~r.eligible

\* Subscriptions of the member that count at the target: active or trialing
\* with a period end on or after the target date.
CountingSubscriptions ==
    {s \in member.subscriptions :
        s.status \in {"active", "trialing"} /\ s.current_period_end >= target_date}

\* C12: donor_sufficient_alone holds exactly when some active or trialing
\* subscription has a period end on or after the target date; a period end
\* the day before the target, or any other status, never makes it hold.
C12_DonorIffCountingSubscription ==
    \A r \in result :
        /\ r.donor_sufficient_alone = (CountingSubscriptions # {})
        /\ (\A s \in member.subscriptions :
                \/ s.status \in {"canceled", "past_due", "incomplete"}
                \/ s.current_period_end <= target_date - 1)
              => ~r.donor_sufficient_alone

C12_Witness ==
    \E r \in result :
        /\ r.donor_sufficient_alone
        /\ \E s \in member.subscriptions, o \in member.subscriptions :
              /\ s.status = "trialing" /\ s.current_period_end = target_date
              /\ o.status = "active" /\ o.current_period_end = target_date - 1

\* Activity records of the member with a positive count dated within the 30
\* days up to and including the target date.
CountingActivity ==
    {a \in member.discord_activity :
        /\ a.count > 0
        /\ target_date - 30 <= a.date /\ a.date <= target_date}

\* C13: with a linked Discord account discord_sufficient_alone holds exactly
\* when a record with positive count is dated within [target - 30, target],
\* and discord_last_activity is then the latest such date; without a linked
\* account it is False whatever the records.
C13_DiscordIffActivityInWindow ==
    \A r \in result :
        /\ member.has_discord =>
              /\ r.discord_sufficient_alone = (CountingActivity # {})
              /\ r.discord_sufficient_alone =>
                    /\ r.discord_last_activity \in {a.date : a \in CountingActivity}
                    /\ \A a \in CountingActivity : a.date <= r.discord_last_activity
        /\ ~member.has_discord => ~r.discord_sufficient_alone

C13_Witness ==
    \E r \in result :
        /\ member.has_discord /\ r.discord_sufficient_alone
        /\ r.discord_last_activity = target_date - 30
        /\ \E a \in member.discord_activity : a.date = target_date - 31

\* C14: a Membership grant active at the target date (started on or before
\* it, not ended before it) gives eligible=True with no warnings and
\* at_risk=False, whatever subscriptions and Discord activity there are.
C14_MembershipSuppressesWarnings ==
    \A r \in result :
        (\E g \in member.memberships :
            /\ g.start_date # NoDate /\ g.start_date <= target_date
            /\ (g.end_date = NoDate \/ g.end_date >= target_date))
          => /\ r.eligible /\ r.warnings = <<>> /\ ~r.at_risk

C14_Witness ==
    \E r \in result :
        /\ r.membership_sufficient_alone /\ r.donor_sufficient_alone
        /\ ~r.discord_sufficient_alone /\ member.has_discord
        /\ r.warnings = <<>>

\* The member's activity suffices today: a linked account and a record with
\* positive count within the 30 days up to today.
ActivitySufficientNow ==
    /\ member.has_discord
    /\ \E a \in member.discord_activity :
          a.count > 0 /\ today - 30 <= a.date /\ a.date <= today

Entries(q) == {q[i] : i \in 1..Len(q)}

\* C25: activity sufficient now, every record more than 30 days old at the
\* target date, donor path not sufficient: the result carries the warning
\* that new activity is required after target - 30 days, and at_risk=True.
C25_AgingOutWarns ==
    \A r \in result :
        (/\ ActivitySufficientNow
         /\ \A a \in member.discord_activity : a.date + 30 < target_date
         /\ CountingSubscriptions = {})
          => /\ "aging:at_risk" \in Entries(r.warnings)
             /\ r.at_risk

\* A Membership grant of the member is active at the target date.
GrantActive ==
    \E g \in member.memberships :
        /\ g.start_date # NoDate /\ g.start_date <= target_date
        /\ (g.end_date = NoDate \/ g.end_date >= target_date)

DonorPath == CountingSubscriptions # {}
ActivityPath == member.has_discord /\ CountingActivity # {}

\* C27: eligible at the target with no Membership grant active: with exactly
\* one of the donor and activity paths sufficient, warnings is the single
\* suggestion of the other path and at_risk is False; with both sufficient,
\* warnings is empty and at_risk is False.
C27_SinglePathSuggestion ==
    \A r \in result :
        (r.eligible /\ ~GrantActive) =>
            /\ (DonorPath /\ ~ActivityPath) =>
                  /\ r.warnings = <<IF member.has_discord THEN "donation_only:post"
                                    ELSE "donation_only:connect">>
                  /\ ~r.at_risk
            /\ (ActivityPath /\ ~DonorPath) =>
                  /\ r.warnings = <<"discord_only">>
                  /\ ~r.at_risk
            /\ (DonorPath /\ ActivityPath) =>
                  /\ r.warnings = <<>>
                  /\ ~r.at_risk

C27_Witness ==
    \E r \in result :
        /\ r.eligible /\ ~GrantActive /\ ActivityPath /\ ~DonorPath
        /\ target_date > today
        /\ r.discord_last_activity = target_date - 30
        /\ r.warnings = <<"discord_only">>

\* C30: for every member, current day and target the result has
\* at_risk=False, a donor_status of inactive, active_stable or expiring,
\* donor_next_renewal null, donor_status inactive exactly when
\* donor_sufficient_alone is False, and neither a renewal warning nor an
\* activity-ages-out warning.
C30_NeverAtRisk ==
    \A r \in result :
        /\ ~r.at_risk
        /\ r.donor_status \in {"inactive", "active_stable", "expiring"}
        /\ r.donor_next_renewal = NoDate
        /\ (r.donor_status = "inactive") <=> ~r.donor_sufficient_alone
        /\ Entries(r.warnings) \cap {"renewal:at_risk", "renewal:discord_backup",
                                     "aging:at_risk", "aging:donor_backup"} = {}

C30_Witness ==
    \E r \in result :
        /\ target_date > today
        /\ r.donor_status = "active_stable"
        /\ latest_sub(member).current_period_end = target_date
        /\ r.discord_sufficient_alone
        /\ r.discord_last_activity = target_date - 30
        /\ \E a \in member.discord_activity : a.date + 30 < target_date

\* ============================================ calculate_election_results
\* ------------------------------------------------------------------ bounds
MaxThreshold == 2     \* district_seat_min_voters, district_seat_min_votes: 1..MaxThreshold
MaxSeats == 1         \* at_large_seats_count: 0..MaxSeats

Voters == {"v1", "v2", "v3"}
Candidates == {"X", "Y", "Z"}

\* A district facet is its name, "District <digits>"; None is no digits.
Digits(n) == IF n < 10 THEN <<n>> ELSE <<n \div 10, n % 10>>
NoDistrict == <<>>
DistrictFacets == {Digits(n) : n \in 1..10}

\* int(re.search(r"\d+", district.name).group())
district_number(name) == IF Len(name) = 1 THEN name[1] ELSE name[1] * 10 + name[2]

\* The number of a district, or 0 for None.
district_num_of(name) == IF name = NoDistrict THEN 0 ELSE district_number(name)

\* district and str(district_num) in district.name
name_contains(district_num, name) ==
    /\ name # NoDistrict
    /\ \E i \in 0..(Len(name) - Len(Digits(district_num))) :
          \A k \in 1..Len(Digits(district_num)) : name[i + k] = Digits(district_num)[k]

\* nominee.get_display_name().lower(), as its alphabetical rank.
display_rank(c) == CASE c = "X" -> 1 [] c = "Y" -> 2 [] c = "Z" -> 3

Front(q) == SubSeq(q, 1, Len(q) - 1)

\* The orders in which the ballots' votes can be met (the queries' row order).
Orders ==
    {q \in [1..Cardinality(Candidates) -> Candidates] :
        \A i, j \in 1..Cardinality(Candidates) : i # j => q[i] # q[j]}

\* nominee_votes[nominee]
nominee_votes(p, c) == Cardinality({b \in p.ballots : c \in b.votes})

\* nominee_district_votes[nominee][district_num]: votes cast by voters whose
\* district number is district_num.
nominee_district_votes(p, c, d) ==
    Cardinality({b \in p.ballots :
        c \in b.votes /\ district_num_of(p.voter_district[b.voter]) = d})

\* The keys of the nominee_votes Counter in insertion order: only nominees
\* that received a vote.
tallied(p, order) == SelectSeq(order, LAMBDA c : nominee_votes(p, c) > 0)

district_numbers == {district_number(f) : f \in DistrictFacets}

voters_in_district(p, d) ==
    Cardinality({b \in p.ballots : name_contains(d, p.voter_district[b.voter])})

\* candidates_for_district, in the tally's order.
candidates_for_district(p, order, d) ==
    SelectSeq(tallied(p, order),
              LAMBDA c : /\ name_contains(d, p.home[c])
                         /\ nominee_district_votes(p, c, d) >= p.district_seat_min_votes)

\* max(candidates_for_district, key=total votes): the first of the maxima.
max_by_total(p, q) ==
    q[CHOOSE i \in 1..Len(q) :
          /\ \A j \in 1..Len(q) : nominee_votes(p, q[j]) <= nominee_votes(p, q[i])
          /\ \A j \in 1..(i - 1) : nominee_votes(p, q[j]) < nominee_votes(p, q[i])]

\* The seat of district d is awarded: enough voters, and q, the candidates
\* for the district, is not empty.
district_awarded(p, q, d) ==
    /\ voters_in_district(p, d) >= p.district_seat_min_voters
    /\ q # <<>>

district_seat(p, q, d) ==
    LET winner == max_by_total(p, q)
    IN  [district_num |-> d, winner |-> winner,
         total_votes |-> nominee_votes(p, winner),
         district_votes |-> nominee_district_votes(p, winner, d)]

\* district_seats, for the district numbers in ascending order.
RECURSIVE district_seats_upto(_, _, _)
district_seats_upto(p, order, d) ==
    IF d = 0 THEN <<>>
    ELSE district_seats_upto(p, order, d - 1)
         \o (LET q == candidates_for_district(p, order, d)
             IN  IF d \in district_numbers /\ district_awarded(p, q, d)
                 THEN <<district_seat(p, q, d)>> ELSE <<>>)

district_seats(p, order) == district_seats_upto(p, order, 10)

\* district_winners, from the district seats awarded.
district_winners(seats) == {seats[i].winner : i \in 1..Len(seats)}

\* list.sort(key=count, reverse=True): stable, descending.
RECURSIVE sort_by_votes(_, _)
sort_by_votes(p, q) ==
    IF q = <<>> THEN <<>>
    ELSE LET t == sort_by_votes(p, Front(q))
             x == q[Len(q)]
             k == Cardinality({i \in 1..Len(t) :
                                  nominee_votes(p, t[i]) >= nominee_votes(p, x)})
         IN  SubSeq(t, 1, k) \o <<x>> \o SubSeq(t, k + 1, Len(t))

remaining_candidates(p, order, dwinners) ==
    sort_by_votes(p, SelectSeq(tallied(p, order), LAMBDA c : c \notin dwinners))

\* remaining_candidates[: election.at_large_seats_count]
at_large_seats(p, order, dwinners) ==
    LET q == remaining_candidates(p, order, dwinners)
        n == IF p.at_large_seats_count < Len(q) THEN p.at_large_seats_count ELSE Len(q)
    IN  [i \in 1..n |-> [nominee |-> q[i], total_votes |-> nominee_votes(p, q[i])]]

at_large_winners(seats) == {seats[i].nominee : i \in 1..Len(seats)}

seat_type(c, dwinners, awinners) ==
    IF c \in dwinners THEN "district"
    ELSE IF c \in awinners THEN "at_large"
    ELSE "None"

candidate_row(p, c, dwinners, awinners) ==
    [nominee |-> c, total_votes |-> nominee_votes(p, c),
     district_num |-> district_num_of(p.home[c]),
     district_votes |-> IF district_num_of(p.home[c]) # 0
                        THEN nominee_district_votes(p, c, district_num_of(p.home[c]))
                        ELSE 0,
     seat_type |-> seat_type(c, dwinners, awinners)]

\* sort_key(candidate)
sort_key(row) ==
    IF row.seat_type = "district"
    THEN <<0, IF row.district_num # 0 THEN row.district_num ELSE 999, 0>>
    ELSE IF row.seat_type = "at_large" THEN <<1, 0, display_rank(row.nominee)>>
    ELSE <<2, 0, display_rank(row.nominee)>>

key_leq(a, b) ==
    \/ a[1] < b[1]
    \/ a[1] = b[1] /\ a[2] < b[2]
    \/ a[1] = b[1] /\ a[2] = b[2] /\ a[3] <= b[3]

\* all_candidates.sort(key=sort_key): stable, ascending.
RECURSIVE sort_by_key(_)
sort_by_key(q) ==
    IF q = <<>> THEN <<>>
    ELSE LET t == sort_by_key(Front(q))
             x == q[Len(q)]
             k == Cardinality({i \in 1..Len(t) : key_leq(sort_key(t[i]), sort_key(x))})
         IN  SubSeq(t, 1, k) \o <<x>> \o SubSeq(t, k + 1, Len(t))

all_candidates(p, order, dwinners, awinners) ==
    LET q == tallied(p, order)
    IN  sort_by_key([i \in 1..Len(q) |-> candidate_row(p, q[i], dwinners, awinners)])

\* A rate computed whenever the count is not negative.
rate_defined_nonnegative(eligible_count) == eligible_count >= 0

\* "if eligible > 0 else None"
rate_defined(eligible_count) == eligible_count > 0

NoRate == <<>>
ZeroDivisionError == <<"ZeroDivisionError">>

\* ballots_cast / eligible * 100, as the fraction <<numerator, denominator>>.
turnout_rate(ballots_cast, eligible_count) ==
    IF ~rate_defined(eligible_count) THEN NoRate
    ELSE IF eligible_count = 0 THEN ZeroDivisionError
    ELSE <<ballots_cast * 100, eligible_count>>

\* One row of district_turnout; d = 0 is the "No District" row.
turnout_row(p, d) ==
    LET eligible_count ==
            Cardinality({v \in p.eligible_voters : district_num_of(p.voter_district[v]) = d})
        ballots_cast ==
            Cardinality({b \in p.ballots : district_num_of(p.voter_district[b.voter]) = d})
    IN  [district_num |-> d, eligible_voters |-> eligible_count,
         ballots_cast |-> ballots_cast,
         turnout_rate |-> turnout_rate(ballots_cast, eligible_count)]

\* district_turnout: districts 1..10, then the "No District" row.
district_turnout(p) == [i \in 1..11 |-> turnout_row(p, IF i = 11 THEN 0 ELSE i)]

\* calculate_election_results(election), the votes met in the given order.
calculate_election_results(p, order) ==
    LET dseats == district_seats(p, order)
        dwinners == district_winners(dseats)
        aseats == at_large_seats(p, order, dwinners)
        awinners == at_large_winners(aseats)
    IN
    [district_seats |-> dseats,
     at_large_seats |-> aseats,
     all_candidates |-> all_candidates(p, order, dwinners, awinners),
     total_ballots |-> Cardinality(p.ballots),
     eligible_voters_count |-> Cardinality(p.eligible_voters),
     district_turnout |-> district_turnout(p)]

\* election_results: the view calculates the report.
election_results ==
    /\ results = {}
    /\ \E order \in Orders : results' = {calculate_election_results(poll, order)}
    /\ UNCHANGED poll
    /\ UNCHANGED <<nomVars, eligVars, voteVars>>

\* What a voter submitted: no ballot, or a ballot with these votes.  Voter v1
\* lives in District 1, v2 in District 1 or 10, v3 in no district; candidate
\* X lives in District 1, Y in District 1 or 10, Z in no district.
BallotChoices == {{}, {"X"}, {"Y"}, {"Z"}, {"X", "Y"}}

BallotSets ==
    {B \in SUBSET [voter : Voters, votes : BallotChoices] :
        \A a \in B, b \in B : a.voter = b.voter => a = b}

Polls ==
    [voter_district : {f \in [Voters -> {NoDistrict, Digits(1), Digits(10)}] :
                           f["v1"] = Digits(1) /\ f["v2"] # NoDistrict
                           /\ f["v3"] = NoDistrict},
     home : {f \in [Candidates -> {NoDistrict, Digits(1), Digits(10)}] :
                 f["X"] = Digits(1) /\ f["Y"] # NoDistrict /\ f["Z"] = NoDistrict},
     ballots : BallotSets,
     eligible_voters : {Voters, {"v3"}},
     district_seat_min_voters : 1..MaxThreshold,
     district_seat_min_votes : 1..MaxThreshold,
     at_large_seats_count : 0..MaxSeats]

InitResults ==
    /\ poll \in Polls
    /\ results = {}
    /\ now = 0 /\ nominees = {} /\ nominations = {}
    /\ notified = [i \in NomIds |-> 0] /\ acceptedBy = {}
    /\ member = NoMember /\ target_date = 0 /\ today = 0 /\ result = {}
    /\ ballots = {} /\ submitted = NoSubmissions /\ in_flight = NoneInFlight

NextResults == election_results

SpecResults == InitResults /\ [][NextResults]_vars
\* ---------------------------------------------------------------- claims
\* Ballots cast by voters residing in district d.
ballots_from_district(p, d) ==
    Cardinality({b \in p.ballots : district_num_of(p.voter_district[b.voter]) = d})

\* Candidate c has home district d and enough votes from residents of d.
qualifies(p, c, d) ==
    /\ district_num_of(p.home[c]) = d
    /\ nominee_district_votes(p, c, d) >= p.district_seat_min_votes

seats_of(r, d) ==
    {i \in 1..Len(r.district_seats) : r.district_seats[i].district_num = d}

\* C15: the seat of district d (1..10) is awarded only if the ballots cast by
\* voters residing in d number at least district_seat_min_voters; its winner
\* has home district d, at least district_seat_min_votes votes from residents
\* of d, and a total no smaller than any other candidate meeting both; with
\* no qualifying candidate the seat of d is unfilled.
C15_DistrictSeatRules ==
    \A r \in results :
        /\ \A i \in 1..Len(r.district_seats) :
              LET s == r.district_seats[i]
                  d == s.district_num
              IN  /\ d \in district_numbers
                  /\ ballots_from_district(poll, d) >= poll.district_seat_min_voters
                  /\ qualifies(poll, s.winner, d)
                  /\ \A c \in Candidates :
                        qualifies(poll, c, d)
                            => nominee_votes(poll, c) <= nominee_votes(poll, s.winner)
        /\ \A d \in district_numbers :
              (~\E c \in Candidates : qualifies(poll, c, d)) => seats_of(r, d) = {}

\* The candidates that won no district seat.
not_district_winners(r) == Candidates \ district_winners(r.district_seats)

MinOf(a, b) == IF a < b THEN a ELSE b

\* C16: the at-large winners are exactly min(at_large_seats_count, number of
\* remaining candidates) candidates that won no district seat, each with a
\* total no smaller than any remaining candidate not chosen; an unfilled
\* district seat adds no at-large seat; no district winner is an at-large
\* winner.
C16_AtLargeRules ==
    \A r \in results :
        LET chosen == at_large_winners(r.at_large_seats)
            remaining == not_district_winners(r)
        IN  /\ Len(r.at_large_seats)
                 = MinOf(poll.at_large_seats_count, Cardinality(remaining))
            /\ Cardinality(chosen) = Len(r.at_large_seats)
            /\ chosen \subseteq remaining
            /\ \A a \in chosen, c \in remaining \ chosen :
                  nominee_votes(poll, a) >= nominee_votes(poll, c)

\* The rank of a row's group in the table: district winners, at-large
\* winners, non-winners.
seat_group(row) ==
    CASE row.seat_type = "district" -> 0
      [] row.seat_type = "at_large" -> 1
      [] OTHER -> 2

\* The smallest district number whose seat the nominee won.
seat_number(r, c) ==
    CHOOSE d \in district_numbers :
        /\ \E i \in seats_of(r, d) : r.district_seats[i].winner = c
        /\ \A e \in 1..(d - 1) :
              \A i \in seats_of(r, e) : r.district_seats[i].winner # c

\* C17: all_candidates holds every candidate of the election exactly once,
\* voted for or not, winner or not, each with seat_type district, at_large or
\* null, district winners first by ascending district number, then at-large
\* winners, then non-winners.
C17_AllCandidatesTable ==
    \A r \in results :
        LET rows == r.all_candidates
        IN  /\ \A c \in Candidates :
                  Cardinality({i \in 1..Len(rows) : rows[i].nominee = c}) = 1
            /\ \A i \in 1..Len(rows) :
                  /\ rows[i].seat_type \in {"district", "at_large", "None"}
                  /\ rows[i].seat_type = "district"
                        <=> rows[i].nominee \in district_winners(r.district_seats)
                  /\ rows[i].seat_type = "at_large"
                        <=> rows[i].nominee \in at_large_winners(r.at_large_seats)
            /\ \A i, j \in 1..Len(rows) :
                  i < j =>
                    /\ seat_group(rows[i]) <= seat_group(rows[j])
                    /\ (seat_group(rows[i]) = 0 /\ seat_group(rows[j]) = 0)
                          => seat_number(r, rows[i].nominee)
                                <= seat_number(r, rows[j].nominee)

\* The eligible voters of a turnout row's district (0: no district).
eligible_in_row(p, d) ==
    Cardinality({v \in p.eligible_voters : district_num_of(p.voter_district[v]) = d})

\* C18: district_turnout has the rows of districts 1..10 and the no-district
\* row; a row's turnout_rate is null exactly when its eligible-voter count is
\* zero, ballots cast or not, and is never a division error.
C18_TurnoutRateNullIffNoEligible ==
    \A r \in results :
        /\ Len(r.district_turnout) = 11
        /\ \A i \in 1..Len(r.district_turnout) :
              LET row == r.district_turnout[i]
              IN  /\ row.district_num = (IF i = 11 THEN 0 ELSE i)
                  /\ row.turnout_rate # ZeroDivisionError
                  /\ row.turnout_rate = NoRate
                        <=> eligible_in_row(poll, row.district_num) = 0

C18_Witness ==
    \E r \in results :
        \E i \in 1..Len(r.district_turnout) :
            /\ eligible_in_row(poll, r.district_turnout[i].district_num) = 0
            /\ r.district_turnout[i].ballots_cast > 0
            /\ r.district_turnout[i].turnout_rate = NoRate

\* C29: in every result no nominee holds more than one seat: a nominee wins
\* at most one district seat, district_seats has at most one entry per
\* district number, and the district winners and the at-large winners are
\* disjoint.
C29_OneSeatPerNominee ==
    \A r \in results :
        /\ \A i, j \in 1..Len(r.district_seats) :
              i # j => /\ r.district_seats[i].winner # r.district_seats[j].winner
                       /\ r.district_seats[i].district_num # r.district_seats[j].district_num
        /\ district_winners(r.district_seats) \cap at_large_winners(r.at_large_seats) = {}

\* ================================================================== vote
\* Election.voting_opens and Election.voting_closes of the election under
\* test: voting follows the nomination window.
voting == [voting_opens |-> election.nominations_close,
           voting_closes |-> election.nominations_close + TickDays]

\* A voting window with no closing time.
is_voting_open_unclosed == voting.voting_opens <= now

\* Election.is_voting_open()
is_voting_open == voting.voting_opens <= now /\ now < voting.voting_closes

\* election.get_eligible_voters(): the members in good standing at the
\* membership eligibility deadline.
get_eligible_voters == EligibleAtDeadline \cup {"C"}

\* Question.objects.filter(election=election).order_by("order")
questions == <<"q1">>

\* eligible_nominee_ids: nominees of this election with a nomination that is
\* both accepted and not a draft.
eligible_nominee_ids ==
    {n.id : n \in {m \in nominees :
        /\ m.election = election.slug
        /\ \E o \in nominations :
              o.nominee = m.id /\ o.acceptance_status = "accepted" /\ ~o.draft}}

\* Ballot.objects.get_or_create(election=election, voter=request.user)
NewBallot(tbl, voter) ==
    [id |-> Cardinality(tbl) + 1, voter |-> voter,
     candidate_votes |-> <<>>, question_votes |-> <<>>]

ballot_get_or_create(tbl, voter) ==
    IF \E b \in tbl : b.voter = voter
    THEN [tbl |-> tbl, rec |-> CHOOSE b \in tbl : b.voter = voter]
    ELSE [tbl |-> tbl \cup {NewBallot(tbl, voter)}, rec |-> NewBallot(tbl, voter)]

\* A re-vote that leaves the ballot's earlier Vote rows in place.
existing_votes_kept(ballot) == ballot.candidate_votes

\* ballot.candidate_votes.all().delete()
existing_votes_cleared(ballot) == <<>>

\* The Vote table's uniqueness of (ballot, nominee).
VoteUniqueViolation(votes) ==
    \E i, j \in 1..Len(votes) : i # j /\ votes[i] = votes[j]

\* The loop over request.POST.getlist("nominees"): nominees.get(id=...) and
\* Vote.objects.create, an id that is not an eligible nominee skipped.
RECURSIVE create_votes(_, _)
create_votes(votes, nominee_ids) ==
    IF nominee_ids = <<>> THEN votes
    ELSE create_votes(IF Head(nominee_ids) \in eligible_nominee_ids
                      THEN Append(votes, Head(nominee_ids)) ELSE votes,
                      Tail(nominee_ids))

\* The loop over the election's questions: a QuestionVote for "yes" or "no".
RECURSIVE create_question_votes(_, _)
create_question_votes(qs, answers) ==
    IF qs = <<>> THEN <<>>
    ELSE (IF answers[Head(qs)] \in {"yes", "no"}
          THEN <<[question |-> Head(qs), answer |-> (answers[Head(qs)] = "yes")]>>
          ELSE <<>>)
         \o create_question_votes(Tail(qs), answers)

\* The response of the view and the Ballot table it commits.
VoteOutcome(r, tbl) == [resp |-> r, ballots |-> tbl]

\* vote(request, election_slug)
vote_view(req, complete) ==
    IF ~complete THEN VoteOutcome("302:profile-incomplete", ballots)
    ELSE IF req.voter \notin get_eligible_voters
    THEN VoteOutcome("302:not-eligible", ballots)
    ELSE IF ~req.preview /\ ~is_voting_open
    THEN VoteOutcome("302:voting-not-open", ballots)
    ELSE IF req.preview
    THEN VoteOutcome(IF req.method = "POST" THEN "302:preview-not-saved"
                     ELSE "200:preview", ballots)
    ELSE LET got == ballot_get_or_create(ballots, req.voter)
         IN  IF req.method # "POST" THEN VoteOutcome("200:form", got.tbl)
             ELSE LET votes == create_votes(existing_votes_cleared(got.rec),
                                            req.nominee_ids)
                      saved == [got.rec EXCEPT
                                   !.candidate_votes = votes,
                                   !.question_votes =
                                       create_question_votes(questions, req.answers)]
                  IN  IF VoteUniqueViolation(votes)
                      THEN VoteOutcome("500:IntegrityError", ballots)
                      ELSE VoteOutcome("302:ballot-saved",
                                       (got.tbl \ {got.rec}) \cup {saved})

vote(req, complete) ==
    LET out == vote_view(req, complete)
    IN  /\ ballots' = out.ballots
        /\ submitted' = IF out.resp = "302:ballot-saved"
                        THEN [submitted EXCEPT ![req.voter] = req]
                        ELSE submitted
        /\ UNCHANGED <<nomVars, eligVars, tallyVars, in_flight>>

\* profile.district of the members: A and C live in District 1, B in
\* District 10.
profile_district(u) == IF u = "B" THEN Digits(10) ELSE Digits(1)

\* What calculate_election_results reads: the election's Ballot rows with
\* their Vote rows, the voters' and the nominees' districts, the eligible
\* voters and the election's seat settings.  In the report Nominee row 1
\* (user A) is candidate X and Nominee row 2 (user B) is candidate Y.
ElectionPoll ==
    [voter_district |-> [v \in Electorate |-> profile_district(v)],
     home |-> [c \in Candidates |->
                  CASE c = "X" -> profile_district("A")
                    [] c = "Y" -> profile_district("B")
                    [] OTHER -> NoDistrict],
     ballots |-> {[voter |-> b.voter,
                   votes |-> {IF b.candidate_votes[i] = 1 THEN "X" ELSE "Y" :
                                 i \in 1..Len(b.candidate_votes)}] : b \in ballots},
     eligible_voters |-> get_eligible_voters,
     district_seat_min_voters |-> 2,
     district_seat_min_votes |-> 1,
     at_large_seats_count |-> 1]

\* election_results(request, election_slug): the redirect before voting
\* closes, else the report calculated from the tables as they stand, the
\* votes for the two nominees met in either order.
election_results_request ==
    /\ \E order \in {<<"X", "Y", "Z">>, <<"Y", "X", "Z">>} :
          results' = IF now < voting.voting_closes THEN results
                     ELSE results \cup {calculate_election_results(ElectionPoll, order)}
    /\ UNCHANGED poll
    /\ UNCHANGED <<nomVars, eligVars, voteVars>>

\* request.POST.getlist("nominees"): the ids posted, in order.  Id 3 is the
\* id of no Nominee row.
PostedNominees == {<<>>, <<1>>, <<2>>, <<1, 2>>, <<1, 1>>, <<3, 1>>}
PostedAnswers == [{"q1"} -> {"yes", "no", ""}]

VoteRequests ==
    [voter : Electorate, method : {"GET", "POST"}, preview : BOOLEAN,
     nominee_ids : PostedNominees, answers : PostedAnswers]

\* The Nominee and Nomination tables when voting opens: A's own nomination,
\* submitted or returned to draft, and A's nomination of B, pending or
\* accepted, B's Nominee row in this election or in another.
VoteNominees(slug) ==
    {[id |-> 1, election |-> election.slug, user |-> "A",
      photo |-> TRUE, board_responsibilities_acknowledged |-> TRUE],
     [id |-> 2, election |-> slug, user |-> "B",
      photo |-> TRUE, board_responsibilities_acknowledged |-> TRUE]}

VoteNominations(draft, status) ==
    {[id |-> 1, nominee |-> 1, nominator |-> "A", nomination_statement |-> "s1",
      draft |-> draft, acceptance_status |-> "accepted",
      acceptance_date |-> election.nominations_open, acceptance_note |-> NoNote],
     [id |-> 2, nominee |-> 2, nominator |-> "A", nomination_statement |-> "s1",
      draft |-> FALSE, acceptance_status |-> status,
      acceptance_date |-> IF status = "accepted" THEN election.nominations_open
                          ELSE NoDate,
      acceptance_note |-> NoNote]}

InitVote ==
    /\ now = election.nominations_open
    /\ \E slug \in {election.slug, "e0"} : nominees = VoteNominees(slug)
    /\ \E draft \in BOOLEAN, status \in {"pending", "accepted"} :
          /\ nominations = VoteNominations(draft, status)
          /\ acceptedBy = IF status = "accepted" THEN {2} ELSE {}
    /\ notified = [i \in NomIds |-> IF i = 2 THEN 1 ELSE 0]
    /\ ballots = {} /\ submitted = NoSubmissions /\ in_flight = NoneInFlight
    /\ member = NoMember /\ target_date = 0 /\ today = 0 /\ result = {}
    /\ poll = NoPoll /\ results = {}

NextVote ==
    \/ Tick
    \/ \E req \in VoteRequests, complete \in BOOLEAN : vote(req, complete)
    \/ election_results_request

SpecVote == InitVote /\ [][NextVote]_vars

\* ---------------------------------------------------------------- claims
BallotsOf(v) == {b \in ballots : b.voter = v}

Elements(q) == {q[i] : i \in 1..Len(q)}

\* The yes/no answers of a request, as QuestionVote rows.
AnswersOf(req) ==
    {[question |-> q, answer |-> (req.answers[q] = "yes")] :
        q \in {x \in DOMAIN req.answers : req.answers[x] \in {"yes", "no"}}}

\* C19: a voter has at most one Ballot in the election, and after a saved
\* submission the ballot's candidate votes are exactly the nominees named in
\* that request that are nominees of this election with an accepted,
\* submitted nomination, one vote each and none from earlier submissions, and
\* its question votes are exactly the yes/no answers of that request.
C19_BallotIsLastSubmission ==
    \A v \in Electorate :
        /\ Cardinality(BallotsOf(v)) <= 1
        /\ submitted[v] # NoRequest =>
              \E b \in BallotsOf(v) :
                  /\ Elements(b.candidate_votes)
                        = Elements(submitted[v].nominee_ids) \cap eligible_nominee_ids
                  /\ Len(b.candidate_votes) = Cardinality(Elements(b.candidate_votes))
                  /\ Elements(b.question_votes) = AnswersOf(submitted[v])
                  /\ Len(b.question_votes) = Cardinality(Elements(b.question_votes))

C19_Witness ==
    \E v \in Electorate :
        /\ submitted[v] # NoRequest
        /\ submitted[v].nominee_ids = <<3, 1>>
        /\ submitted[v].answers["q1"] = "no"
        /\ \E b \in BallotsOf(v) :
              /\ b.candidate_votes = <<1>>
              /\ b.question_votes = <<[question |-> "q1", answer |-> FALSE]>>
        /\ \E w \in Electorate \ {v} :
              \E b \in BallotsOf(w) : Len(b.candidate_votes) = 2

\* The voters with a saved submission.
VotersWhoSubmitted == {v \in Electorate : submitted[v] # NoRequest}

SubmittedFrom(d) ==
    Cardinality({v \in VotersWhoSubmitted : district_num_of(profile_district(v)) = d})

\* C23: a Ballot row exists only for a voter who submitted a vote; opening
\* the voting page, live or in preview, creates none.  So the report's
\* total_ballots, the ballots_cast of every turnout row and the voter count
\* behind every district seat count only the voters who submitted.
C23_BallotOnlyIfVoted ==
    /\ \A b \in ballots : b.voter \in VotersWhoSubmitted
    /\ \A r \in results :
          /\ r.total_ballots = Cardinality(VotersWhoSubmitted)
          /\ \A i \in 1..Len(r.district_turnout) :
                r.district_turnout[i].ballots_cast
                    = SubmittedFrom(r.district_turnout[i].district_num)
          /\ \A i \in 1..Len(r.district_seats) :
                SubmittedFrom(r.district_seats[i].district_num)
                    >= ElectionPoll.district_seat_min_voters

\* A preview request of voter v.
PreviewRequest(v, method) ==
    [voter |-> v, method |-> method, preview |-> TRUE,
     nominee_ids |-> <<1, 2>>, answers |-> [q \in {"q1"} |-> "yes"]]

\* C28: the Ballot table changes only at times t with
\* voting_opens <= t < voting_closes, and a preview request leaves it as it
\* is; a report is calculated only at times t >= voting_closes; so once a
\* report has been shown no later request changes the ballots it tallied.
C28_VotesThenResults ==
    /\ [](\A v \in Electorate, method \in {"GET", "POST"}, complete \in BOOLEAN :
             vote_view(PreviewRequest(v, method), complete).ballots = ballots)
    /\ [][/\ ballots' # ballots =>
                voting.voting_opens <= now /\ now < voting.voting_closes
          /\ results' # results => now >= voting.voting_closes
          /\ results # {} => ballots' = ballots]_vars

C28_Witness ==
    /\ now >= voting.voting_closes
    /\ \E r \in results : r.total_ballots = 2 /\ Len(r.all_candidates) = 2
    /\ \E b \in ballots : Len(b.candidate_votes) = 2

\* ==================================================== concurrent votes
\* Two POSTs of the vote view served at the same time, each in one
\* transaction (ATOMIC_REQUESTS) of the PostgreSQL database at its default
\* isolation level, READ COMMITTED: a statement sees the rows committed when
\* it starts and the rows of its own transaction, waits for a row another
\* open transaction has deleted or for a key another open transaction has
\* inserted, and goes on when that transaction has ended.
Other(t) == CHOOSE o \in Transactions : o # t

InProgress(t) == in_flight[t].pc \in {"begun", "deleting", "inserting"}

\* The Ballot row of the voter, committed.
BallotOfVoter(v) == CHOOSE b \in ballots : b.voter = v

\* The view up to get_or_create: the request has passed the gates and holds
\* the voter's Ballot row.
vote_request_begin(t, req) ==
    /\ in_flight[t].pc = "idle"
    /\ req.voter \in get_eligible_voters /\ is_voting_open
    /\ \E b \in ballots : b.voter = req.voter
    /\ in_flight' = [in_flight EXCEPT ![t] =
           [pc |-> "begun", req |-> req, seen |-> {}, deleted |-> {},
            inserted |-> <<>>, todo |-> req.nominee_ids]]
    /\ UNCHANGED <<ballots, submitted>>
    /\ UNCHANGED <<nomVars, eligVars, tallyVars>>

\* ballot.candidate_votes.all().delete() starts: the rows it will delete are
\* the committed rows of the ballot.
vote_delete_read(t) ==
    /\ in_flight[t].pc = "begun"
    /\ in_flight' = [in_flight EXCEPT ![t].pc = "deleting",
                                      ![t].seen = Elements(BallotOfVoter(in_flight[t].req.voter).candidate_votes)]
    /\ UNCHANGED <<ballots, submitted>>
    /\ UNCHANGED <<nomVars, eligVars, tallyVars>>

\* The DELETE waits for a row that the other open transaction has deleted.
delete_waits(t) ==
    /\ in_flight[t].pc = "deleting"
    /\ InProgress(Other(t))
    /\ in_flight[t].seen \cap in_flight[Other(t)].deleted # {}

\* ballot.candidate_votes.all().delete() ends: the rows it read and that are
\* still there are deleted.
vote_delete_apply(t) ==
    /\ in_flight[t].pc = "deleting"
    /\ ~delete_waits(t)
    /\ in_flight' = [in_flight EXCEPT ![t].pc = "inserting",
                                      ![t].deleted = in_flight[t].seen]
    /\ UNCHANGED <<ballots, submitted>>
    /\ UNCHANGED <<nomVars, eligVars, tallyVars>>

\* The committed Vote rows that the transaction of request t has not
\* deleted, by nominee.
VotesLeft(t) ==
    Elements(BallotOfVoter(in_flight[t].req.voter).candidate_votes)
        \ in_flight[t].deleted

\* The INSERT waits for the other open transaction: it has inserted a Vote
\* for the same nominee, or deleted the committed one.
create_waits(t) ==
    /\ in_flight[t].pc = "inserting" /\ in_flight[t].todo # <<>>
    /\ LET n == Head(in_flight[t].todo)
       IN  /\ n \in eligible_nominee_ids
           /\ n \notin Elements(in_flight[t].inserted)
           /\ InProgress(Other(t))
           /\ \/ n \in Elements(in_flight[Other(t)].inserted)
              \/ n \in VotesLeft(t) \cap in_flight[Other(t)].deleted

\* The INSERT meets a Vote of the same ballot and nominee: one of its own
\* transaction, or a committed one that its transaction has not deleted.
create_collides(t) ==
    Head(in_flight[t].todo) \in Elements(in_flight[t].inserted) \cup VotesLeft(t)

\* One round of the loop over request.POST.getlist("nominees"):
\* nominees.get(id=...) and Vote.objects.create; on a collision the
\* transaction is rolled back and the request answered 500.
vote_create(t) ==
    /\ in_flight[t].pc = "inserting" /\ in_flight[t].todo # <<>>
    /\ ~create_waits(t)
    /\ in_flight' = [in_flight EXCEPT ![t] =
           IF Head(in_flight[t].todo) \notin eligible_nominee_ids
           THEN [@ EXCEPT !.todo = Tail(@)]
           ELSE IF create_collides(t)
           THEN [@ EXCEPT !.pc = "failed", !.deleted = {}, !.inserted = <<>>]
           ELSE [@ EXCEPT !.todo = Tail(@),
                          !.inserted = Append(@, Head(in_flight[t].todo))]]
    /\ UNCHANGED <<ballots, submitted>>
    /\ UNCHANGED <<nomVars, eligVars, tallyVars>>

\* The view returns its redirect and the transaction commits: the rows it
\* deleted go, the rows it created become visible, and a DELETE of the other
\* transaction that waited for a row deleted here finds it gone.
vote_commit(t) ==
    /\ in_flight[t].pc = "inserting" /\ in_flight[t].todo = <<>>
    /\ LET b == BallotOfVoter(in_flight[t].req.voter)
           kept == SelectSeq(b.candidate_votes,
                             LAMBDA n : n \notin in_flight[t].deleted)
           saved == [b EXCEPT !.candidate_votes = kept \o in_flight[t].inserted,
                              !.question_votes =
                                  create_question_votes(questions,
                                                        in_flight[t].req.answers)]
       IN  /\ ballots' = (ballots \ {b}) \cup {saved}
           /\ submitted' = [submitted EXCEPT ![b.voter] = in_flight[t].req]
    /\ in_flight' = [in_flight EXCEPT
           ![t].pc = "committed",
           ![Other(t)].seen = IF in_flight[Other(t)].pc = "deleting"
                              THEN @ \ in_flight[t].deleted ELSE @]
    /\ UNCHANGED <<nomVars, eligVars, tallyVars>>

\* Each transaction waits for the other: the database ends one of them.
vote_deadlock(t) ==
    /\ delete_waits(t) \/ create_waits(t)
    /\ delete_waits(Other(t)) \/ create_waits(Other(t))
    /\ in_flight' = [in_flight EXCEPT ![t] =
           [@ EXCEPT !.pc = "failed", !.deleted = {}, !.inserted = <<>>]]
    /\ UNCHANGED <<ballots, submitted>>
    /\ UNCHANGED <<nomVars, eligVars, tallyVars>>

InitConcurrentVote ==
    /\ now = voting.voting_opens
    /\ nominees = VoteNominees(election.slug)
    /\ nominations = VoteNominations(FALSE, "accepted")
    /\ acceptedBy = {2}
    /\ notified = [i \in NomIds |-> IF i = 2 THEN 1 ELSE 0]
    /\ \E prior \in {<<>>, <<1>>, <<1, 2>>} :
          ballots = {[NewBallot({}, "A") EXCEPT !.candidate_votes = prior]}
    /\ submitted = NoSubmissions /\ in_flight = NoneInFlight
    /\ member = NoMember /\ target_date = 0 /\ today = 0 /\ result = {}
    /\ poll = NoPoll /\ results = {}

NextConcurrentVote ==
    \/ \E t \in Transactions, ids \in {<<1>>, <<2>>, <<1, 2>>, <<2, 1>>} :
          vote_request_begin(t, [voter |-> "A", method |-> "POST", preview |-> FALSE,
                                 nominee_ids |-> ids, answers |-> [q \in {"q1"} |-> ""]])
    \/ \E t \in Transactions : vote_delete_read(t)
    \/ \E t \in Transactions : vote_delete_apply(t)
    \/ \E t \in Transactions : vote_create(t)
    \/ \E t \in Transactions : vote_commit(t)
    \/ \E t \in Transactions : vote_deadlock(t)

SpecConcurrentVote == InitConcurrentVote /\ [][NextConcurrentVote]_vars

\* ---------------------------------------------------------------- claims
BothFinished == \A t \in Transactions : in_flight[t].pc \in {"committed", "failed"}

\* C24: when two vote submissions of the same voter have run at the same
\* time and both have finished, the ballot's candidate votes are exactly the
\* selection of one of the two requests, one vote per nominee: not a mixture
\* or union of the two selections, and no nominee twice.
C24_OneSubmissionWins ==
    BothFinished =>
        LET votes == BallotOfVoter("A").candidate_votes
        IN  /\ Len(votes) = Cardinality(Elements(votes))
            /\ \E t \in Transactions :
                  Elements(votes)
                      = Elements(in_flight[t].req.nominee_ids) \cap eligible_nominee_ids

\* ================================== nomination_form on an existing pair
\* The request of nominator n.nominator, on no nomination or on another of
\* their nominations, gets as far as saving a nomination of n's nominee.
ReachesSave(n, pk) ==
    /\ eligible(n.nominator) /\ is_nominations_open
    /\ pk = NoPk => FreeNomIds # {}
    /\ pk # NoPk =>
          /\ pk # n.id /\ HasNomination(pk)
          /\ NominationRow(pk).nominator = n.nominator
          /\ ~edit_refused(NominationRow(pk))

\* C20: a nomination_form request, save-draft or submit, that would create a
\* nomination for, or move one onto, a (nominee, nominator) pair that already
\* has a nomination, draft or submitted, is answered by a handled refusal
\* and not by an unhandled IntegrityError, and changes nothing.
C20_DuplicatePairRefused ==
    \A n \in nominations, pk \in {NoPk} \cup NomIds,
       op \in {"save-draft", "submit-nomination"}, st \in Statements :
        ReachesSave(n, pk) =>
            LET out == nomination_form_view(n.nominator, pk, op, NomineeUser(n), st, TRUE)
            IN  /\ out.resp # "500:IntegrityError"
                /\ out = Reply(out.resp)

\* ===================================== nomination life cycle, continued
\* C21: once a self-nomination is declined, no request of a member changes
\* any of its fields: statement, nominee, draft flag, acceptance_status,
\* acceptance_date and acceptance_note stay as they were when it was
\* withdrawn.
C21_DeclinedSelfFrozen ==
    [][\A n \in nominations :
          (IsSelf(n) /\ n.acceptance_status = "declined") => n \in nominations']_vars

\* The row of nomination n after the respond request of user.
Responded(n, user, action, note) ==
    RowIn(nomination_respond_view(user, n.id, action, note).nominations, n.id)

\* C22 as stated: nomination_respond changes the acceptance_status of a
\* non-self nomination only from pending, to accepted or declined; on an
\* accepted self-nomination its only change is withdraw, accepted to
\* declined; an accepted or declined nomination is not moved to the other
\* outcome.
C22_RespondOnlyFromPending ==
    \A n \in nominations, user \in Users, action \in RespondOps, note \in Notes :
        LET m == Responded(n, user, action, note)
        IN  /\ (~IsSelf(n) /\ m.acceptance_status # n.acceptance_status)
                  => /\ n.acceptance_status = "pending"
                     /\ m.acceptance_status \in {"accepted", "declined"}
            /\ (IsSelf(n) /\ n.acceptance_status = "accepted" /\ m # n)
                  => /\ action = "withdraw"
                     /\ m.acceptance_status = "declined"

\* C22 amended: nomination_respond changes the acceptance_status of a
\* non-self nomination only for its nominee, on a submitted nomination, while
\* the acceptance period is open, to the outcome of the action (accept only
\* with a complete nominee profile), from pending, accepted or declined
\* alike; on an accepted self-nomination its only change is withdraw,
\* accepted to declined.
C22_RespondWhileAcceptanceOpen ==
    \A n \in nominations, user \in Users, action \in RespondOps, note \in Notes :
        LET m == Responded(n, user, action, note)
        IN  /\ (~IsSelf(n) /\ m.acceptance_status # n.acceptance_status)
                  => /\ user = NomineeUser(n) /\ ~n.draft
                     /\ ~is_acceptance_period_closed
                     /\ action \in {"accept", "decline"}
                     /\ m.acceptance_status
                           = (IF action = "accept" THEN "accepted" ELSE "declined")
                     /\ action = "accept" => NomineeComplete(n)
            /\ (~IsSelf(n) /\ user = NomineeUser(n) /\ ~n.draft
                /\ ~is_acceptance_period_closed /\ action = "decline")
                  => m.acceptance_status = "declined"
            /\ (IsSelf(n) /\ n.acceptance_status = "accepted" /\ m # n)
                  => /\ action = "withdraw"
                     /\ m.acceptance_status = "declined"

C22_Witness ==
    \E n \in nominations :
        /\ ~IsSelf(n) /\ ~n.draft
        /\ n.acceptance_status = "declined" /\ n.id \in acceptedBy

NomineeUserAfter(n) == NomineeRowIn(nominees', n.nominee).user

\* C26: every stored nomination, draft or submitted, names a nominee who is
\* eligible as of the membership eligibility deadline or is the nominator,
\* has a nominator eligible as of that deadline, and was created while the
\* nomination window was open by a request of a member with a complete
\* profile.
C26_NominationsAmongEligible ==
    [][/\ \A n \in nominations' :
             /\ \/ NomineeUserAfter(n) \in EligibleAtDeadline
                \/ NomineeUserAfter(n) = n.nominator
             /\ n.nominator \in EligibleAtDeadline
             /\ ~HasNomination(n.id) => is_nominations_open
       /\ \A user \in Users, pk \in {NoPk} \cup NomIds, op \in FormOps,
             u \in Users \cup {NoUser}, st \in Statements :
             nomination_form_view(user, pk, op, u, st, FALSE) = Reply("redirect:profile")]_vars
====
